---------------------------- MODULE Spec2Model ----------------------------
(***************************************************************************)
(* Model of synthetic_data_engine/data_generator.py: the generator of the  *)
(* employees, schedule and timecard tables (main, generate_employees,      *)
(* generate_schedule, generate_timecards).                                 *)
(*                                                                         *)
(* Numbers.  Datetimes are minutes since the start of proleptic ordinal 0; *)
(* dates are proleptic ordinals (date.toordinal()).  A timestamp string    *)
(* "YYYY-MM-DD HH:MM:SS" is the tuple <<Y, M, D, hh, mm, ss>> and a date   *)
(* string "YYYY-MM-DD" the tuple <<Y, M, D>>.  An id string such as        *)
(* "S500000" is the tuple <<"S", 500000>>.  An org path is the sequence of *)
(* its "/"-separated segments.  Python floats are exact rationals p/q.     *)
(*                                                                         *)
(* Random streams.  Each of the three process-wide generators (random,     *)
(* numpy.random, Faker) is a deterministic stream: a state seeded from     *)
(* cfg.seed and advanced once per draw; every draw is a function of the    *)
(* stream state.  The standard normal variate is drawn on a grid of        *)
(* 1/ZScale in [-ZMax/ZScale, ZMax/ZScale].                                *)
(***************************************************************************)
EXTENDS Integers, Sequences, FiniteSets, TLC

\* ------------------------------------------------------------------ bounds
MaxSeed == 5
MaxDays == 3
MaxHeadcount == 3
MaxTodayOffset == 1
ZScale == 4
ZMax == 24

\* ------------------------------------------------------- program constants
EmpNumBase == 100000
ShiftIdBase == 500000
TcIdBase == 900000

\* None in an id column: the id of no row
None == <<>>

\* a local that is not bound yet
Unbound == "Unbound"

\* --------------------------------------------------------------- arithmetic
Max(a, b) == IF a >= b THEN a ELSE b

Min(a, b) == IF a <= b THEN a ELSE b

\* int(p/q) for q > 0: truncation toward zero
Trunc(p, q) == IF p >= 0 THEN p \div q ELSE -((-p) \div q)

\* round(p/q) for p >= 0, q > 0: round half to even
Round(p, q) ==
  LET f == p \div q
      r == p % q
  IN  IF 2 * r < q THEN f
      ELSE IF 2 * r > q THEN f + 1
      ELSE IF f % 2 = 0 THEN f ELSE f + 1

Last(s) == s[Len(s)]

\* ----------------------------------------------------------------- calendar
\* date.weekday(): 0 = Monday
Weekday(ord) == (ord + 6) % 7

\* date.isoformat(): the <<Y, M, D>> of a proleptic ordinal
DateIso(ord) ==
  LET z == ord + 305
      era == z \div 146097
      doe == z % 146097
      yoe == (doe - doe \div 1460 + doe \div 36524 - doe \div 146096) \div 365
      doy == doe - (365 * yoe + yoe \div 4 - yoe \div 100)
      mp == (5 * doy + 2) \div 153
      dd == doy - (153 * mp + 2) \div 5 + 1
      mm == IF mp < 10 THEN mp + 3 ELSE mp - 9
      yy == yoe + era * 400 + (IF mm <= 2 THEN 1 ELSE 0)
  IN  <<yy, mm, dd>>

\* date(Y, M, D): the proleptic ordinal of a calendar date
DateOrd(ymd) ==
  LET y == ymd[1] - (IF ymd[2] <= 2 THEN 1 ELSE 0)
      era == y \div 400
      yoe == y - era * 400
      mp == IF ymd[2] > 2 THEN ymd[2] - 3 ELSE ymd[2] + 9
      doy == (153 * mp + 2) \div 5 + ymd[3] - 1
      doe == yoe * 365 + yoe \div 4 - yoe \div 100 + doy
  IN  era * 146097 + doe - 305

\* datetime(day.year, day.month, day.day, hour, 0, 0)
DateTime(ord, hour) == ord * 1440 + hour * 60

\* datetime.isoformat(sep=" ")
IsoFormat(t) ==
  LET ymd == DateIso(t \div 1440)
      m == t % 1440
  IN  <<ymd[1], ymd[2], ymd[3], m \div 60, m % 60, 0>>

\* pd.to_datetime(...) of a timestamp string
ToDatetime(s) == DateOrd(<<s[1], s[2], s[3]>>) * 1440 + s[4] * 60 + s[5]

\* ----------------------------------------------------------- random streams
PyNext(s) == (25173 * s + 13849) % 65536

NpNext(s) == (20077 * s + 12345) % 65536

FakeNext(s) == (1229 * s + 1) % 65536

\* random.seed(seed), np.random.seed(seed), Faker.seed(seed)
PySeed(seed) == PyNext((seed * 7919 + 17) % 65536)

NpSeed(seed) == NpNext((seed * 104729 + 5) % 65536)

FakeSeed(seed) == FakeNext(seed % 65536)

\* numerator over 256 of the uniform [0,1) variate read from a stream state
Unit(s) == s \div 256

\* random.choice(seq), read from the state after the draw
Choice(seq, s) == seq[(Unit(s) * Len(seq)) \div 256 + 1]

\* standard normal variate, in units of 1/ZScale
StdNormal(s) == (Unit(s) % (2 * ZMax + 1)) - ZMax

\* int(np.random.normal(loc, scale))
NormalInt(loc, scale, s) == Trunc(loc * ZScale + scale * StdNormal(s), ZScale)

\* --------------------------------------------------------- configuration
NursingOrg == <<"Hospital", "Nursing">>

EVSOrg == <<"Hospital", "Support", "EVS">>

HROrg == <<"Corporate", "HR">>

OrgLists == { <<HROrg>>, <<NursingOrg, EVSOrg>>, <<EVSOrg, HROrg, NursingOrg>> }

JobCatalog ==
  [ Nursing |-> << [job_code |-> "RN", job_title |-> "Registered Nurse", job_family |-> "Clinical"],
                   [job_code |-> "LPN", job_title |-> "Practical Nurse", job_family |-> "Clinical"] >>,
    EVS     |-> << [job_code |-> "EVT", job_title |-> "EVS Technician", job_family |-> "Support"] >> ]

Paycodes == <<"REG", "OT", "CALL">>

\* class Config
Configs ==
  [ seed : 0 .. MaxSeed, days : 1 .. MaxDays, orgs : OrgLists,
    jobs : {JobCatalog}, paycodes : {Paycodes} ]

\* datetime.utcnow().date(): the days on which a run may start, from 2024-01-01 (a Monday)
Todays == 738886 .. 738886 + MaxTodayOffset

\* org_path.split("/")[-1]
Dept(org_path) == Last(org_path)

\* cfg.jobs.get(dept, [])
DeptJobs(jobs, dept) == IF dept \in DOMAIN jobs THEN jobs[dept] ELSE <<>>

GenericJob(dept) == [job_code |-> "GEN", job_title |-> "General Staff", job_family |-> dept]

\* shift_bucket_from_start
shift_bucket_from_start(start_hour) ==
  IF 6 <= start_hour /\ start_hour < 14 THEN "DAY"
  ELSE IF 14 <= start_hour /\ start_hour < 22 THEN "EVENING"
  ELSE "NIGHT"

\* -------------------------------------------------------------------- state
VARIABLES
  cfg, n_per_org, today, start_date, runs, pc,
  pyRng, npRng, fakeRng,
  employees, emp_num, e_org, e_i,
  schedule, shift_id, d, s_org, s_bucket,
  day, org_path, bucket, demand, needed, open_count,
  scheduled_assigned, timecards, tc_id, t_i, x_i,
  written

vars ==
  << cfg, n_per_org, today, start_date, runs, pc, pyRng, npRng, fakeRng,
     employees, emp_num, e_org, e_i, schedule, shift_id, d, s_org, s_bucket,
     day, org_path, bucket, demand, needed, open_count,
     scheduled_assigned, timecards, tc_id, t_i, x_i, written >>

rngVars == << pyRng, npRng, fakeRng >>

empVars == << employees, emp_num, e_org, e_i >>

schedVars == << schedule, shift_id, d, s_org, s_bucket, day, org_path, bucket, demand, needed, open_count >>

tcVars == << scheduled_assigned, timecards, tc_id, t_i, x_i >>

runVars == << cfg, n_per_org, today, start_date, runs >>

\* the output directory before the first run: no table written
NoFiles == <<>>

\* main, lines 215-225, and the locals of the three generators before their loops
Start(c, now) ==
  /\ cfg' = c
  /\ today' = now
  /\ start_date' = now - c.days
  /\ pc' = "employees"
  /\ pyRng' = PySeed(c.seed)
  /\ npRng' = NpSeed(c.seed)
  /\ fakeRng' = FakeSeed(c.seed)
  /\ employees' = <<>>
  /\ emp_num' = EmpNumBase
  /\ e_org' = 1
  /\ e_i' = 0
  /\ schedule' = <<>>
  /\ shift_id' = ShiftIdBase
  /\ d' = 0
  /\ s_org' = 1
  /\ s_bucket' = 0
  /\ day' = 0
  /\ org_path' = <<>>
  /\ bucket' = Unbound
  /\ demand' = 0
  /\ needed' = 0
  /\ open_count' = 0
  /\ scheduled_assigned' = <<>>
  /\ timecards' = <<>>
  /\ tc_id' = TcIdBase
  /\ t_i' = 1
  /\ x_i' = 0

Init ==
  /\ cfg \in Configs
  /\ n_per_org \in 1 .. MaxHeadcount
  /\ today \in Todays
  /\ start_date = today - cfg.days
  /\ runs = 1
  /\ pc = "employees"
  /\ pyRng = PySeed(cfg.seed)
  /\ npRng = NpSeed(cfg.seed)
  /\ fakeRng = FakeSeed(cfg.seed)
  /\ employees = <<>>
  /\ emp_num = EmpNumBase
  /\ e_org = 1
  /\ e_i = 0
  /\ schedule = <<>>
  /\ shift_id = ShiftIdBase
  /\ d = 0
  /\ s_org = 1
  /\ s_bucket = 0
  /\ day = 0
  /\ org_path = <<>>
  /\ bucket = Unbound
  /\ demand = 0
  /\ needed = 0
  /\ open_count = 0
  /\ scheduled_assigned = <<>>
  /\ timecards = <<>>
  /\ tc_id = TcIdBase
  /\ t_i = 1
  /\ x_i = 0
  /\ written = NoFiles

\* ------------------------------------------------------- generate_employees
\* round(random.uniform(18, 55) if dept == "Nursing" else random.uniform(15, 35), 2), in cents
HourlyRate(dept, s) ==
  IF dept = "Nursing" THEN Round((18 * 256 + 37 * Unit(s)) * 100, 256)
  ELSE Round((15 * 256 + 20 * Unit(s)) * 100, 256)

\* mutant: the id is formatted after emp_num is advanced
EmployeeIdAdvanced(num) == <<"E", num + 1>>

\* line 59: f"E{emp_num}"
EmployeeId(num) == <<"E", num>>

\* the row appended at lines 58-70; s1, s2, s3 are the states of the random stream
\* after the job, status and rate draws, f1 the Faker state after fake.name()
EmployeeEntry(num, path, jobs, s1, s2, s3, f1) ==
  LET dept == Dept(path)
      dept_jobs == DeptJobs(jobs, dept)
      job == IF dept_jobs # <<>> THEN Choice(dept_jobs, s1) ELSE GenericJob(dept)
  IN  [ employee_id |-> EmployeeId(num),
        employee_number |-> num,
        employee_name |-> Unit(f1),
        org_path |-> path,
        department |-> dept,
        job_code |-> job.job_code,
        job_title |-> job.job_title,
        job_family |-> job.job_family,
        employment_status |-> Choice(<<"FT", "PT", "PRN">>, s2),
        home_org_path |-> path,
        hourly_rate |-> HourlyRate(dept, s3) ]

\* one iteration of the loop of lines 52-71 (and the loop headers of lines 49-52)
GenerateEmployee ==
  /\ pc = "employees"
  /\ LET path == cfg.orgs[e_org]
         s1 == IF DeptJobs(cfg.jobs, Dept(path)) # <<>> THEN PyNext(pyRng) ELSE pyRng
         s2 == PyNext(s1)
         s3 == PyNext(s2)
         f1 == FakeNext(fakeRng)
         lastOfOrg == e_i + 1 = n_per_org
     IN  /\ employees' = Append(employees, EmployeeEntry(emp_num, path, cfg.jobs, s1, s2, s3, f1))
         /\ emp_num' = emp_num + 1
         /\ pyRng' = s3
         /\ fakeRng' = f1
         /\ e_i' = IF lastOfOrg THEN 0 ELSE e_i + 1
         /\ e_org' = IF lastOfOrg THEN e_org + 1 ELSE e_org
         /\ pc' = IF lastOfOrg /\ e_org = Len(cfg.orgs) THEN "schedule" ELSE "employees"
  /\ UNCHANGED << runVars, npRng, schedVars, tcVars, written >>

\* -------------------------------------------------------- generate_schedule
Buckets == << [name |-> "DAY", pct |-> 45], [name |-> "EVENING", pct |-> 35], [name |-> "NIGHT", pct |-> 20] >>

\* lines 85-87
BaseDemand(dept, dow) ==
  IF dept = "HR" /\ dow >= 5 THEN 3
  ELSE IF dept = "Nursing" THEN 55
  ELSE IF dept = "EVS" THEN 22
  ELSE 10

\* line 88: max(0, int(np.random.normal(loc=base, scale=3)))
Demand(dept, dow, s) == Max(0, NormalInt(BaseDemand(dept, dow), 3, s))

\* line 92: int(round(demand * pct)), pct in hundredths (the float product rounds as
\* the exact one for every demand below 90)
Needed(dem, pct) == Round(dem * pct, 100)

\* line 93: int(round(needed * random.uniform(0.03, 0.08)))
OpenCount(need, s) == Round(need * (3 * 256 + 5 * Unit(s)), 100 * 256)

\* mutant: the roster is not filtered by org path
OrgEmpsUnfiltered(emps, path) == emps

\* line 95: employees[employees["org_path"] == org_path]
OrgEmps(emps, path) == SelectSeq(emps, LAMBDA e : e.org_path = path)

\* line 98
ScheduledCount(need, open) == Max(0, need - open)

\* line 99: the n of org_emps.sample(n=min(scheduled_count, len(org_emps)), replace=False)
SampleSize(scheduled_count, pool_size) == Min(scheduled_count, pool_size)

RemoveAt(s, i) == SubSeq(s, 1, i - 1) \o SubSeq(s, i + 1, Len(s))

\* mutant: sampling with replacement
RECURSIVE SampleWithReplacement(_, _, _)
SampleWithReplacement(pool, n, s) ==
  IF n = 0 THEN [rows |-> <<>>, rng |-> s]
  ELSE LET s1 == NpNext(s)
           i == (Unit(s1) * Len(pool)) \div 256 + 1
           rest == SampleWithReplacement(pool, n - 1, s1)
       IN  [rows |-> <<pool[i]>> \o rest.rows, rng |-> rest.rng]

\* DataFrame.sample(n, replace=False): n rows drawn from the numpy stream, each removed
\* from the pool once drawn
RECURSIVE Sample(_, _, _)
Sample(pool, n, s) ==
  IF n = 0 THEN [rows |-> <<>>, rng |-> s]
  ELSE LET s1 == NpNext(s)
           i == (Unit(s1) * Len(pool)) \div 256 + 1
           rest == Sample(RemoveAt(pool, i), n - 1, s1)
       IN  [rows |-> <<pool[i]>> \o rest.rows, rng |-> rest.rng]

\* mutant: the start hours of each bucket one hour early
StartHoursEarly(b) ==
  IF b = "DAY" THEN <<5, 6>>
  ELSE IF b = "EVENING" THEN <<13, 14>>
  ELSE <<21, 22>>

\* lines 101-106
StartHours(b) ==
  IF b = "DAY" THEN <<6, 7>>
  ELSE IF b = "EVENING" THEN <<14, 15>>
  ELSE <<22, 23>>

\* lines 110, 127: timedelta(hours=12 if dept == "Nursing" else 8)
ShiftHours(dept) == IF dept = "Nursing" THEN 12 ELSE 8

RECURSIVE PyAdvance(_, _)
PyAdvance(s, k) == IF k = 0 THEN s ELSE PyAdvance(PyNext(s), k - 1)

\* lines 109-122: the row of a filled shift
FilledShift(dy, id, e, path, b, start_hour) ==
  LET start_dtm == DateTime(dy, start_hour)
      end_dtm == start_dtm + ShiftHours(Dept(path)) * 60
  IN  [ schedule_date |-> DateIso(dy),
        shift_id |-> <<"S", id>>,
        employee_id |-> e.employee_id,
        org_path |-> path,
        job_code |-> e.job_code,
        shift_start |-> IsoFormat(start_dtm),
        shift_end |-> IsoFormat(end_dtm),
        shift_bucket |-> b,
        is_open_shift |-> FALSE,
        scheduled_hours |-> (end_dtm - start_dtm) \div 60 ]

\* lines 126-139: the row of an open shift; s is the state of the random stream
\* after the job code draw
OpenShift(dy, id, jobs, path, b, start_hour, s) ==
  LET start_dtm == DateTime(dy, start_hour)
      end_dtm == start_dtm + ShiftHours(Dept(path)) * 60
      dept_jobs == IF Dept(path) \in DOMAIN jobs THEN jobs[Dept(path)] ELSE << [job_code |-> "GEN"] >>
  IN  [ schedule_date |-> DateIso(dy),
        shift_id |-> <<"S", id>>,
        employee_id |-> None,
        org_path |-> path,
        job_code |-> Choice(dept_jobs, s).job_code,
        shift_start |-> IsoFormat(start_dtm),
        shift_end |-> IsoFormat(end_dtm),
        shift_bucket |-> b,
        is_open_shift |-> TRUE,
        scheduled_hours |-> (end_dtm - start_dtm) \div 60 ]

\* lines 108-123: one filled row per sampled employee, in sample order
FilledShifts(dy, id, chosen, path, b, start_hour) ==
  [ i \in 1 .. Len(chosen) |-> FilledShift(dy, id + i - 1, chosen[i], path, b, start_hour) ]

\* mutant: shift_id is not advanced between the open rows
OpenShiftsSameId(dy, id, n, jobs, path, b, start_hour, s) ==
  [ i \in 1 .. n |-> OpenShift(dy, id, jobs, path, b, start_hour, PyAdvance(s, i)) ]

\* lines 125-140: open_count open rows; s is the random stream before the first job code draw
OpenShifts(dy, id, n, jobs, path, b, start_hour, s) ==
  [ i \in 1 .. n |-> OpenShift(dy, id + i - 1, jobs, path, b, start_hour, PyAdvance(s, i)) ]

\* lines 79-88: the head of one iteration of the org loop: the day's demand
DrawDemand ==
  /\ pc = "schedule"
  /\ s_bucket = 0
  /\ LET dy == start_date + d
         path == cfg.orgs[s_org]
         s1 == NpNext(npRng)
     IN  /\ day' = dy
         /\ org_path' = path
         /\ demand' = Demand(Dept(path), Weekday(dy), s1)
         /\ npRng' = s1
  /\ s_bucket' = 1
  /\ UNCHANGED << runVars, pc, pyRng, fakeRng, empVars, schedule, shift_id, d, s_org,
                  bucket, needed, open_count, tcVars, written >>

\* lines 91-140: one iteration of the bucket loop
ScheduleBucket ==
  /\ pc = "schedule"
  /\ s_bucket \in 1 .. 3
  /\ LET b == Buckets[s_bucket]
         need == Needed(demand, b.pct)
         p1 == PyNext(pyRng)
         open == OpenCount(need, p1)
         org_emps == OrgEmps(employees, org_path)
         chosen == Sample(org_emps, SampleSize(ScheduledCount(need, open), Len(org_emps)), npRng)
         p2 == PyNext(p1)
         start_hour == Choice(StartHours(b.name), p2)
         filled == FilledShifts(day, shift_id, chosen.rows, org_path, b.name, start_hour)
         opens == OpenShifts(day, shift_id + Len(chosen.rows), open, cfg.jobs, org_path, b.name, start_hour, p2)
         lastBucket == s_bucket = Len(Buckets)
         lastOrg == s_org = Len(cfg.orgs)
         lastDay == d + 1 = cfg.days
     IN  /\ bucket' = b.name
         /\ needed' = need
         /\ open_count' = open
         /\ IF org_emps = <<>>
            THEN /\ pyRng' = p1
                 /\ UNCHANGED << npRng, schedule, shift_id >>
            ELSE /\ pyRng' = PyAdvance(p2, open)
                 /\ npRng' = chosen.rng
                 /\ schedule' = schedule \o filled \o opens
                 /\ shift_id' = shift_id + Len(chosen.rows) + open
         /\ s_bucket' = IF lastBucket THEN 0 ELSE s_bucket + 1
         /\ s_org' = IF ~lastBucket THEN s_org ELSE IF lastOrg THEN 1 ELSE s_org + 1
         /\ d' = IF lastBucket /\ lastOrg THEN d + 1 ELSE d
         /\ pc' = IF lastBucket /\ lastOrg /\ lastDay THEN "timecards" ELSE "schedule"
  /\ UNCHANGED << runVars, fakeRng, empVars, day, org_path, demand, tcVars, written >>

\* ------------------------------------------------------- generate_timecards
\* lines 150-152: the non-open rows, with their parsed start and end
ScheduledAssigned(sched) ==
  LET rows == SelectSeq(sched, LAMBDA s : s.is_open_shift = FALSE)
  IN  [ i \in 1 .. Len(rows) |->
          [ row |-> rows[i],
            shift_start_dt |-> ToDatetime(rows[i].shift_start),
            shift_end_dt |-> ToDatetime(rows[i].shift_end) ] ]

\* mutant: the early clock-in is not clamped
ClockInUnclamped(start, late_minutes) == start + late_minutes

\* line 162
ClockIn(start, late_minutes) == start + Max(-15, late_minutes)

\* mutant: the late clock-out is not clamped
ClockOutUnclamped(end, early_out_minutes) == end - early_out_minutes

\* line 163
ClockOut(end, early_out_minutes) == end - Max(-30, early_out_minutes)

\* line 165, in minutes
WorkedMinutes(clock_in, clock_out) == Max(0, clock_out - clock_in)

\* round(worked_hours, 2), in hundredths of an hour
RoundHours(minutes) == Round(minutes * 100, 60)

\* lines 167-173; s1 is the state of the random stream after random.random(), s2 after random.choice
Paycode(dept, worked, s1, s2) ==
  IF dept = "Nursing" /\ worked > 12 * 60 THEN "OT"
  ELSE IF dept = "Nursing" /\ Unit(s1) * 100 < 18 * 256 THEN Choice(<<"REG", "OT", "CALL">>, s2)
  ELSE IF dept # "Nursing" /\ Unit(s1) * 100 < 8 * 256 THEN "OT"
  ELSE "REG"

\* the state of the random stream after lines 167-173
PaycodeRng(dept, worked, s) ==
  IF dept = "Nursing" /\ worked > 12 * 60 THEN s
  ELSE IF dept = "Nursing" /\ Unit(PyNext(s)) * 100 < 18 * 256 THEN PyNext(PyNext(s))
  ELSE PyNext(s)

\* employees.set_index("employee_id").loc[id, "home_org_path"]
HomeOrgPath(emps, id) == CHOOSE i \in 1 .. Len(emps) : emps[i].employee_id = id

\* line 190: int(len(scheduled_assigned) * 0.02)
ExceptionCount(n) == Trunc(n * 2, 100)

\* lines 147-152: the entry of generate_timecards; selecting a column of a schedule
\* built from no rows raises KeyError
BeginTimecards ==
  /\ pc = "timecards"
  /\ IF schedule = <<>>
     THEN /\ pc' = "KeyError"
          /\ UNCHANGED scheduled_assigned
     ELSE /\ scheduled_assigned' = ScheduledAssigned(schedule)
          /\ pc' = IF ScheduledAssigned(schedule) = <<>> THEN "to_csv" ELSE "timecard_rows"
  /\ UNCHANGED << runVars, rngVars, empVars, schedVars, timecards, tc_id, t_i, x_i, written >>

\* lines 154-188: one iteration of the loop over the filled shifts
TimecardForShift ==
  /\ pc = "timecard_rows"
  /\ LET s == scheduled_assigned[t_i]
         dept == Dept(s.row.org_path)
         n1 == NpNext(npRng)
         n2 == NpNext(n1)
         late_minutes == NormalInt(4, 6, n1)
         early_out_minutes == NormalInt(3, 8, n2)
         clock_in == ClockIn(s.shift_start_dt, late_minutes)
         clock_out == ClockOut(s.shift_end_dt, early_out_minutes)
         worked == WorkedMinutes(clock_in, clock_out)
         p1 == PyNext(pyRng)
         p2 == PyNext(p1)
         lastShift == t_i = Len(scheduled_assigned)
     IN  /\ timecards' = Append(timecards,
              [ timecard_entry_id |-> <<"T", tc_id>>,
                employee_id |-> s.row.employee_id,
                work_date |-> s.row.schedule_date,
                org_path |-> s.row.org_path,
                home_org_path |-> employees[HomeOrgPath(employees, s.row.employee_id)].home_org_path,
                job_code |-> s.row.job_code,
                clock_in |-> IsoFormat(clock_in),
                clock_out |-> IsoFormat(clock_out),
                worked_hours |-> RoundHours(worked),
                paycode |-> Paycode(dept, worked, p1, p2),
                scheduled_shift_id |-> s.row.shift_id ])
         /\ npRng' = n2
         /\ pyRng' = PaycodeRng(dept, worked, pyRng)
         /\ tc_id' = tc_id + 1
         /\ t_i' = t_i + 1
         /\ pc' = IF ~lastShift THEN "timecard_rows"
                  ELSE IF ExceptionCount(Len(scheduled_assigned)) > 0 THEN "exception_rows"
                  ELSE "to_csv"
  /\ UNCHANGED << runVars, fakeRng, empVars, schedVars, scheduled_assigned, x_i, written >>

\* lines 190-209: one iteration of the loop over the exception entries
ExceptionEntry ==
  /\ pc = "exception_rows"
  /\ LET n1 == NpNext(npRng)
         n2 == NpNext(n1)
         e == employees[(Unit(n1) * Len(employees)) \div 256 + 1]
         dy == DateOrd(scheduled_assigned[(Unit(n2) * Len(scheduled_assigned)) \div 256 + 1].row.schedule_date)
         p1 == PyNext(pyRng)
         p2 == PyNext(p1)
         p3 == PyNext(p2)
         start == DateTime(dy, Choice(<<5, 9, 13, 17, 21>>, p1))
         end == start + Choice(<<4, 6, 8>>, p2) * 60
         lastEntry == x_i + 1 = ExceptionCount(Len(scheduled_assigned))
     IN  /\ timecards' = Append(timecards,
              [ timecard_entry_id |-> <<"T", tc_id>>,
                employee_id |-> e.employee_id,
                work_date |-> DateIso(dy),
                org_path |-> e.org_path,
                home_org_path |-> e.home_org_path,
                job_code |-> e.job_code,
                clock_in |-> IsoFormat(start),
                clock_out |-> IsoFormat(end),
                worked_hours |-> RoundHours(end - start),
                paycode |-> Choice(<<"REG", "OT", "CALL">>, p3),
                scheduled_shift_id |-> None ])
         /\ npRng' = n2
         /\ pyRng' = p3
         /\ tc_id' = tc_id + 1
         /\ x_i' = x_i + 1
         /\ pc' = IF lastEntry THEN "to_csv" ELSE "exception_rows"
  /\ UNCHANGED << runVars, fakeRng, empVars, schedVars, scheduled_assigned, t_i, written >>

\* --------------------------------------------------------------------- main
\* lines 231-233: the three tables written to the output directory
WriteCsv ==
  /\ pc = "to_csv"
  /\ written' = << [employees |-> employees, schedule |-> schedule, timecards |-> timecards] >>
  /\ pc' = "done"
  /\ UNCHANGED << runVars, rngVars, empVars, schedVars, tcVars >>

\* main is run again, a day later, on the same configuration file
Rerun ==
  /\ pc = "done"
  /\ runs = 1
  /\ today + 1 \in Todays
  /\ Start(cfg, today + 1)
  /\ runs' = runs + 1
  /\ UNCHANGED << n_per_org, written >>

Next ==
  \/ GenerateEmployee
  \/ DrawDemand
  \/ ScheduleBucket
  \/ BeginTimecards
  \/ TimecardForShift
  \/ ExceptionEntry
  \/ WriteCsv
  \/ Rerun

Spec == Init /\ [][Next]_vars

\* ------------------------------------------------------------------- claims
Filled(sched) == SelectSeq(sched, LAMBDA s : s.is_open_shift = FALSE)

Opens(sched) == SelectSeq(sched, LAMBDA s : s.is_open_shift = TRUE)

IdNum(id) == id[2]

\* the schedule row a timecard refers to: the row of that shift_id (looked for first
\* at the id's offset from the first row's id)
ShiftOf(tc) ==
  LET k == IdNum(tc.scheduled_shift_id) - IdNum(schedule[1].shift_id) + 1
  IN  IF k \in 1 .. Len(schedule) /\ schedule[k].shift_id = tc.scheduled_shift_id
      THEN schedule[k]
      ELSE schedule[CHOOSE i \in 1 .. Len(schedule) : schedule[i].shift_id = tc.scheduled_shift_id]

ShiftTimecards == { i \in 1 .. Len(timecards) : timecards[i].scheduled_shift_id # None }

\* C1: two runs of main with the same seed and the same config write identical
\* employees, schedule and timecard tables, whenever each run is started: a run
\* that finds the tables of an earlier run writes the same tables again.
C1_Determinism ==
  [][(pc = "to_csv" /\ written # NoFiles) =>
       written' = written]_vars

\* C2: every open row has no employee_id; every filled row has the employee_id of
\* an employee of the roster whose org_path is the shift's org_path.
C2_OpenShiftExclusivity ==
  \A i \in 1 .. Len(schedule) :
    LET s == schedule[i]
    IN  /\ s.is_open_shift = TRUE => s.employee_id = None
        /\ s.is_open_shift = FALSE =>
             /\ s.employee_id # None
             /\ \E j \in 1 .. Len(employees) :
                  /\ employees[j].employee_id = s.employee_id
                  /\ employees[j].org_path = s.org_path

C2_Witness ==
  /\ pc = "timecards"
  /\ Opens(schedule) # <<>>
  /\ Filled(schedule) # <<>>
  /\ Len(cfg.orgs) > 1

\* the shape of the table generate_timecards returns for the schedule: one entry per
\* filled shift, in schedule order, then floor(0.02 * F) entries with no shift
TimecardsShape ==
  LET filled == Filled(schedule)
      F == Len(filled)
  IN  /\ Len(timecards) = F + (2 * F) \div 100
      /\ \A i \in 1 .. F :
           /\ timecards[i].scheduled_shift_id = filled[i].shift_id
           /\ timecards[i].employee_id = filled[i].employee_id
           /\ timecards[i].org_path = filled[i].org_path
           /\ timecards[i].work_date = filled[i].schedule_date
      /\ \A i \in F + 1 .. Len(timecards) : timecards[i].scheduled_shift_id = None

\* C3: for any schedule with F filled shifts, generate_timecards returns exactly
\* F + floor(0.02 * F) entries: the first F are the filled shifts' entries in schedule
\* order, the others are exception entries without a shift id.
C3_TimecardsPerFilledShift ==
  (pc \in {"to_csv", "done", "KeyError"}) => (pc # "KeyError" /\ TimecardsShape)

\* C4: in each table the ids are strictly increasing in generation order, at every
\* point of generation: each row's id is greater than the id of the row appended
\* before it, hence than every earlier id.
C4_IdsStrictlyIncreasing ==
  /\ \A i \in 1 .. Len(schedule) :
       /\ schedule[i].shift_id[1] = "S"
       /\ i > 1 => IdNum(schedule[i - 1].shift_id) < IdNum(schedule[i].shift_id)
  /\ \A i \in 1 .. Len(timecards) :
       /\ timecards[i].timecard_entry_id[1] = "T"
       /\ i > 1 => IdNum(timecards[i - 1].timecard_entry_id) < IdNum(timecards[i].timecard_entry_id)

C4_Witness ==
  /\ pc = "done"
  /\ Opens(schedule) # <<>>
  /\ \E i \in 1 .. Len(schedule) : schedule[i].schedule_date # schedule[1].schedule_date
  /\ Len(timecards) > Len(Filled(schedule))
  /\ Len(Filled(schedule)) > 0

\* C5: generate_employees with headcount N produces, for the k-th org path (from 0),
\* exactly the employees numbered 100000 + k*N .. 100000 + k*N + N - 1, in that order,
\* each with employee_id "E" + number, that org path, and home_org_path = org_path.
C5_EmployeesPerOrg ==
  /\ \A i \in 1 .. Len(employees) :
       LET k == (i - 1) \div n_per_org
       IN  /\ k < Len(cfg.orgs)
           /\ employees[i].employee_number = 100000 + i - 1
           /\ employees[i].employee_id = <<"E", 100000 + i - 1>>
           /\ employees[i].org_path = cfg.orgs[k + 1]
           /\ employees[i].home_org_path = employees[i].org_path
  /\ pc # "employees" => Len(employees) = n_per_org * Len(cfg.orgs)

C5_Witness ==
  /\ pc = "schedule"
  /\ Len(cfg.orgs) = 3
  /\ n_per_org >= 2
  /\ Len(employees) = 3 * n_per_org

\* C6: the clock_in of the timecard of a filled shift is never earlier than the
\* shift's scheduled start minus 15 minutes.
C6_ClockInBound ==
  \A i \in ShiftTimecards :
    ToDatetime(timecards[i].clock_in) >= ToDatetime(ShiftOf(timecards[i]).shift_start) - 15

C6_Witness ==
  /\ \E i \in ShiftTimecards :
       ToDatetime(timecards[i].clock_in) = ToDatetime(ShiftOf(timecards[i]).shift_start) - 15
  /\ \E i \in ShiftTimecards :
       ToDatetime(timecards[i].clock_in) > ToDatetime(ShiftOf(timecards[i]).shift_start) + 15

\* C7: the shift_bucket of every row is DAY iff the hour of shift_start is in [6,14),
\* EVENING iff it is in [14,22), NIGHT otherwise: it is shift_bucket_from_start of
\* the row's start hour.
C7_BucketCorrectness ==
  \A i \in 1 .. Len(schedule) :
    LET s == schedule[i]
        hour == s.shift_start[4]
    IN  /\ s.shift_bucket = "DAY" <=> (6 <= hour /\ hour < 14)
        /\ s.shift_bucket = "EVENING" <=> (14 <= hour /\ hour < 22)
        /\ s.shift_bucket = "NIGHT" <=> (hour < 6 \/ hour >= 22)
        /\ s.shift_bucket = shift_bucket_from_start(hour)

C7_Witness ==
  /\ \A b \in {"DAY", "EVENING", "NIGHT"} :
       \E i \in 1 .. Len(schedule) : schedule[i].shift_bucket = b
  /\ \E i \in 1 .. Len(schedule) : schedule[i].is_open_shift = TRUE
  /\ \E i, j \in 1 .. Len(schedule) :
       /\ schedule[i].shift_bucket = schedule[j].shift_bucket
       /\ schedule[i].shift_start[4] # schedule[j].shift_start[4]

\* C8 as stated: clock_out is never earlier than the scheduled end minus 30 minutes.
C8_ClockOutNotBefore ==
  \A i \in ShiftTimecards :
    ToDatetime(timecards[i].clock_out) >= ToDatetime(ShiftOf(timecards[i]).shift_end) - 30

\* C8, amended: the clock_out of the timecard of a filled shift is never later than
\* the shift's scheduled end plus 30 minutes (it may be any number of minutes earlier).
C8_ClockOutBound ==
  \A i \in ShiftTimecards :
    ToDatetime(timecards[i].clock_out) <= ToDatetime(ShiftOf(timecards[i]).shift_end) + 30

C8_Witness ==
  /\ \E i \in ShiftTimecards :
       ToDatetime(timecards[i].clock_out) = ToDatetime(ShiftOf(timecards[i]).shift_end) + 30
  /\ \E i \in ShiftTimecards :
       ToDatetime(timecards[i].clock_out) < ToDatetime(ShiftOf(timecards[i]).shift_end) - 30

\* the rows of the group the bucket loop has just generated
GroupRows ==
  SelectSeq(schedule, LAMBDA s : /\ s.schedule_date = DateIso(day)
                                 /\ s.org_path = org_path
                                 /\ s.shift_bucket = bucket)

GroupGenerated == pc # "employees" /\ bucket # Unbound /\ s_bucket # 1

\* C9: a (day, org path, bucket) group whose org has a non-empty pool gets exactly
\* min(max(0, needed - open), pool size) filled shifts, assigned to pairwise distinct
\* employees of that org's pool, and exactly `open` open rows.
C9_CappedFill ==
  GroupGenerated =>
    LET pool == { employees[i].employee_id :
                    i \in { j \in 1 .. Len(employees) : employees[j].org_path = org_path } }
        filled == Filled(GroupRows)
    IN  pool # {} =>
          /\ Len(filled) = Min(Max(0, needed - open_count), Cardinality(pool))
          /\ \A i, j \in 1 .. Len(filled) : i # j => filled[i].employee_id # filled[j].employee_id
          /\ \A i \in 1 .. Len(filled) : filled[i].employee_id \in pool
          /\ Len(Opens(GroupRows)) = open_count

C9_Witness ==
  /\ GroupGenerated
  /\ open_count > 0
  /\ needed - open_count > n_per_org
  /\ Len(Filled(GroupRows)) = n_per_org
  /\ n_per_org > 1

\* C10: no employee is assigned to two filled shifts whose [shift_start, shift_end)
\* intervals overlap.
C10_NoDoubleBooking ==
  \A i, j \in 1 .. Len(schedule) :
    (/\ i < j
     /\ schedule[i].is_open_shift = FALSE
     /\ schedule[j].is_open_shift = FALSE
     /\ schedule[i].employee_id = schedule[j].employee_id)
    => ~ (/\ ToDatetime(schedule[i].shift_start) < ToDatetime(schedule[j].shift_end)
          /\ ToDatetime(schedule[j].shift_start) < ToDatetime(schedule[i].shift_end))

====
